---- MODULE Spec2Model ----
(***************************************************************************)
(* Model of migrate.py: the migration runner (migrate / seed / info), the  *)
(* schema_migrations ledger and the files it reads.  One action per        *)
(* database round trip of a command, so that two runners can interleave.   *)
(***************************************************************************)
EXTENDS Integers, Sequences, FiniteSets, TLC

VARIABLES
    dbExists,      \* the target database exists on the server
    tableExists,   \* the schema_migrations table exists
    ledger,        \* rows of schema_migrations, in insertion order
    rankSeq,       \* last value of the installed_rank sequence (SERIAL: a
                   \* rejected INSERT has taken its value all the same)
    execLog,       \* every script execution the server has seen
    migFiles,      \* migrations directory: file id -> content or "absent"
    cbFiles,       \* afterMigrate directory
    seedFiles,     \* seeds directory
    seedsDir,      \* the seeds directory exists
    runner,        \* per process: the MigrationRunner and its position
    runs,          \* number of invocations started so far
    edits,         \* number of file modifications made so far
    prevRun,       \* summary of the invocation that finished last
    concurrent,    \* two runners may overlap
    tpl            \* one call of render_sql_template: its input and its result

vars == <<dbExists, tableExists, ledger, rankSeq, execLog, migFiles, cbFiles,
          seedFiles, seedsDir, runner, runs, edits, prevRun, concurrent, tpl>>

-----------------------------------------------------------------------------
(* Bounds *)

MaxRuns == 2
MaxEdits == 1
MaxTplLen == 5

(* Program constants *)

DescLimit == 200

-----------------------------------------------------------------------------
(* Files.  A file is an id; FileName gives its name as code points, with   *)
(* the .sql extension, so that sorting is the byte-wise sort of the code.  *)

Procs == {1, 2}
MigIds == {1, 2, 3}
CbIds == {4, 5}
SeedIds == {6, 7, 8}
Contents == {"good", "bad"}

SqlExt == <<46, 115, 113, 108>>

\* 1: v2.sql   2: v10.sql   3: v3xxx...x.sql (stem of DescLimit + 1 chars)
\* 4: b.sql    5: a_1.sql   6: s2.sql   7: s10.sql   8: s1.sql
FileName(f) ==
    CASE f = 1 -> <<118, 50>> \o SqlExt
      [] f = 2 -> <<118, 49, 48>> \o SqlExt
      [] f = 3 -> <<118, 51>> \o [i \in 1..(DescLimit - 1) |-> 120] \o SqlExt
      [] f = 4 -> <<98>> \o SqlExt
      [] f = 5 -> <<97, 95, 49>> \o SqlExt
      [] f = 6 -> <<115, 50>> \o SqlExt
      [] f = 7 -> <<115, 49, 48>> \o SqlExt
      [] f = 8 -> <<115, 49>> \o SqlExt

\* filepath.stem
Stem(f) ==
    LET name == FileName(f)
    IN SubSeq(name, 1, Len(name) - Len(SqlExt))

\* filepath.stem.replace("_", " ")
Description(f) ==
    LET stem == Stem(f)
    IN [i \in 1..Len(stem) |-> IF stem[i] = 95 THEN 32 ELSE stem[i]]

\* hashlib.md5(bytes).hexdigest(): distinct contents, distinct digests
Checksum(c) == <<"md5", c>>

\* Migration.from_file
FromFile(f, files) == [filename |-> f, checksum |-> Checksum(files[f])]

\* str < str of Python: the first differing code point decides, and a
\* proper prefix is smaller
LexLess(a, b) ==
    LET n == IF Len(a) < Len(b) THEN Len(a) ELSE Len(b)
        diff == {i \in 1..n : a[i] # b[i]}
    IN IF diff = {} THEN Len(a) < Len(b)
       ELSE LET d == CHOOSE i \in diff : \A j \in diff : i <= j
            IN a[d] < b[d]

\* (variant: shorter names first, as a version-aware sort would put v2 before v10)
RECURSIVE SortedShortFirst(_)
SortedShortFirst(S) ==
    IF S = {} THEN <<>>
    ELSE LET m == CHOOSE x \in S : \A y \in S \ {x} :
                      \/ Len(FileName(x)) < Len(FileName(y))
                      \/ /\ Len(FileName(x)) = Len(FileName(y))
                         /\ LexLess(FileName(x), FileName(y))
         IN <<m>> \o SortedShortFirst(S \ {m})

\* (variant: the files are taken in the order of the directory listing, here
\* the order in which they were created)
RECURSIVE InListingOrder(_)
InListingOrder(S) ==
    IF S = {} THEN <<>>
    ELSE LET m == CHOOSE x \in S : \A y \in S : x <= y
         IN <<m>> \o InListingOrder(S \ {m})

\* sorted(dir.glob("*.sql"))
RECURSIVE Sorted(_)
Sorted(S) ==
    IF S = {} THEN <<>>
    ELSE LET m == CHOOSE x \in S : \A y \in S \ {x} : LexLess(FileName(x), FileName(y))
         IN <<m>> \o Sorted(S \ {m})

OnDisk(files) == {f \in DOMAIN files : files[f] # "absent"}

Range(s) == {s[i] : i \in 1..Len(s)}

-----------------------------------------------------------------------------
(* The ledger *)

\* (variant: the query keeps the successful rows only)
AppliedScriptsSuccessfulOnly(led) ==
    {led[i].script : i \in {k \in 1..Len(led) : led[k].success}}

\* get_applied_migrations: script -> row
AppliedScripts(led) == {led[i].script : i \in 1..Len(led)}

RowOf(led, f) == led[CHOOSE i \in 1..Len(led) : led[i].script = f]

\* (variant: the filter is dropped, every file on disk is pending)
IsPendingUnfiltered(m, led) == TRUE

\* (variant: a file whose checksum differs from the recorded one is pending again)
IsPendingUnlessSameChecksum(m, led) ==
    \A i \in 1..Len(led) :
        led[i].script = m.filename => led[i].checksum # m.checksum

\* the filter loop of get_pending_migrations
IsPending(m, led) == m.filename \notin AppliedScripts(led)

\* the elif branch of get_pending_migrations: checksum mismatch warning
IsDrifted(m, led) ==
    /\ m.filename \in AppliedScripts(led)
    /\ RowOf(led, m.filename).checksum # m.checksum

RECURSIVE FilterPending(_, _)
FilterPending(ms, led) ==
    IF ms = <<>> THEN <<>>
    ELSE IF IsPending(Head(ms), led)
         THEN <<Head(ms)>> \o FilterPending(Tail(ms), led)
         ELSE FilterPending(Tail(ms), led)

\* get_pending_migrations
GetPendingMigrations(files, led) ==
    LET names == Sorted(OnDisk(files))
        all == [i \in 1..Len(names) |-> FromFile(names[i], files)]
    IN FilterPending(all, led)

DriftWarnings(files, led) ==
    {f \in OnDisk(files) : IsDrifted(FromFile(f, files), led)}

\* the INSERT of apply_migration is rejected by the table definition:
\* script is UNIQUE, description is VARCHAR(200)
\* (variant: the script column has no UNIQUE constraint)
InsertRejectedLengthOnly(f, led) == Len(Description(f)) > DescLimit

InsertRejected(f, led) ==
    \/ f \in AppliedScripts(led)
    \/ Len(Description(f)) > DescLimit

-----------------------------------------------------------------------------
(* render_sql_template.  Texts are sequences of code points; a mapping is a  *)
(* function from names to values, a value being a string or an integer.     *)

Dollar == 36
OpenBrace == 123
CloseBrace == 125
Underscore == 95
Letters == (65..90) \cup (97..122)
Digits == 48..57

\* (variant: the name may begin with a digit)
IsNameStartOrDigit(c) == c \in Letters \cup Digits \cup {Underscore}

\* [A-Za-z_]
IsNameStart(c) == c \in Letters \cup {Underscore}

\* [A-Za-z0-9_]
IsNameChar(c) == c \in Letters \cup Digits \cup {Underscore}

\* the last index of the longest run of name characters beginning at k
\* (k - 1 if there is none): the greedy [A-Za-z0-9_]*
RECURSIVE NameEnd(_, _)
NameEnd(text, k) ==
    IF k <= Len(text) /\ IsNameChar(text[k]) THEN NameEnd(text, k + 1) ELSE k - 1

\* the index of the closing brace of the match of
\* \$\{([A-Za-z_][A-Za-z0-9_]*)\} that begins at i, 0 if none begins there
MatchEnd(text, i) ==
    IF /\ i + 3 <= Len(text)
       /\ text[i] = Dollar
       /\ text[i + 1] = OpenBrace
       /\ IsNameStart(text[i + 2])
    THEN LET e == NameEnd(text, i + 3)
         IN IF e + 1 <= Len(text) /\ text[e + 1] = CloseBrace THEN e + 1 ELSE 0
    ELSE 0

\* decimal digits of a natural number
RECURSIVE DigitsOf(_)
DigitsOf(n) == IF n < 10 THEN <<48 + n>> ELSE DigitsOf(n \div 10) \o <<48 + (n % 10)>>

\* str(value)
Str(v) == IF v.type = "int" THEN DigitsOf(v.val) ELSE v.val

\* replace_var(match): whole is match.group(0), name is match.group(1)
ReplaceVar(whole, name, tvars) ==
    IF name \in DOMAIN tvars THEN Str(tvars[name]) ELSE whole

\* re.sub: the matches are found from left to right, the search goes on after
\* the end of each match, and what lies between the matches is copied
RECURSIVE ReSub(_, _, _)
ReSub(text, tvars, i) ==
    IF i > Len(text) THEN <<>>
    ELSE LET j == MatchEnd(text, i)
         IN IF j = 0
            THEN <<text[i]>> \o ReSub(text, tvars, i + 1)
            ELSE ReplaceVar(SubSeq(text, i, j), SubSeq(text, i + 2, j - 1), tvars)
                     \o ReSub(text, tvars, j + 1)

RenderSqlTemplate(text, tvars) ==
    IF DOMAIN tvars = {} THEN text ELSE ReSub(text, tvars, 1)

-----------------------------------------------------------------------------
(* The runner *)

IdleRunner ==
    [pc |-> "idle", cmd |-> "none", dry |-> FALSE, run |-> 0, conn |-> "none",
     dbCreated |-> FALSE, pending |-> <<>>, idx |-> 1, warned |-> {},
     queue |-> <<>>, applied |-> 0, result |-> -1, raised |-> FALSE,
     readLedger |-> FALSE, counts |-> <<0, 0>>,
     pre |-> [db |-> FALSE, table |-> FALSE, ledger |-> <<>>, log |-> 0, edits |-> 0]]

Snapshot ==
    [db |-> dbExists, table |-> tableExists, ledger |-> ledger, log |-> Len(execLog),
     edits |-> edits]

\* self.close() followed by return code
CloseAndReturn(r, code) == [r EXCEPT !.pc = "done", !.conn = "closed", !.result = code]

\* a return before any connection was opened
ReturnOnly(r, code) == [r EXCEPT !.pc = "done", !.result = code]

\* an exception leaves the command and reaches the handler of main(),
\* which prints the traceback and exits with 1; sys.exit(1) likewise
\* (variant: the error is reported and the command returns normally, as info does)
PropagateSwallowed(r) == [r EXCEPT !.pc = "done", !.result = 0, !.raised = TRUE]

Propagate(r) == [r EXCEPT !.pc = "done", !.result = 1, !.raised = TRUE]

\* cursor.execute(sql_content); conn.commit()  /  except: conn.rollback()
Commits(content) == content = "good"

Executed(r, kind, f, content) ==
    [run |-> r.run, kind |-> kind, file |-> f, content |-> content,
     committed |-> Commits(content)]

\* the row apply_migration inserts
\* (variant: the rank is numbered within the run, not by the table's sequence)
NewRowRankOfRun(r, m, success, rank) ==
    [rank |-> r.applied + 1, script |-> m.filename, checksum |-> m.checksum,
     success |-> success, run |-> r.run]

NewRow(r, m, success, rank) ==
    [rank |-> rank, script |-> m.filename, checksum |-> m.checksum,
     success |-> success, run |-> r.run]

\* (variant: the callbacks run whenever nothing is pending)
CallbacksWhenNothingPendingAlways(dbCreated) == TRUE

\* migrate: "if not db_created: self.run_after_migrate_scripts(dry_run)"
CallbacksWhenNothingPending(dbCreated) == ~dbCreated

\* migrate: "if applied_count > 0: self.run_after_migrate_scripts(dry_run)"
CallbacksAfterApply(appliedCount) == appliedCount > 0

\* run_after_migrate_scripts: the list of scripts it will go through
CallbackScripts(files) == Sorted(OnDisk(files))

\* (variant: a failing callback ends the command as a failing seed does)
CallbackFailedAborts(r) == CloseAndReturn(r, 1)

\* run_after_migrate_scripts: "except psycopg2.Error: self.conn.rollback()",
\* and the loop goes on
CallbackFailed(r) == [r EXCEPT !.queue = Tail(@)]

\* (variant: a failing seed is skipped as a failing callback is)
SeedFailedLoopGoesOn(r) == [r EXCEPT !.queue = Tail(@)]

\* seed: "except psycopg2.Error: rollback; close; return 1"
SeedFailed(r) == CloseAndReturn(r, 1)

Set(p, r) == runner' = [runner EXCEPT ![p] = r]

dbVars == <<dbExists, tableExists, ledger, rankSeq, execLog>>
fileVars == <<migFiles, cbFiles, seedFiles, seedsDir>>
envVars == <<runs, edits, prevRun, concurrent, tpl>>

-----------------------------------------------------------------------------
(* Initial states: a server with or without the target database, no       *)
(* invocation yet.  Init: any migration files and two afterMigrate         *)
(* scripts, the first of which may fail, for the migrate and info          *)
(* commands.  InitSeed: any seed files, for seed.                          *)

InitCommon ==
    /\ dbExists \in BOOLEAN
    /\ tableExists = FALSE
    /\ ledger = <<>>
    /\ rankSeq = 0
    /\ execLog = <<>>
    /\ runner = [p \in Procs |-> IdleRunner]
    /\ runs = 0
    /\ edits = 0
    /\ prevRun = [cmd |-> "none", dry |-> FALSE, result |-> -1, raised |-> FALSE,
                  run |-> 0, edits |-> 0]

NoFiles(ids) == [f \in ids |-> "absent"]

\* no call of render_sql_template is looked at
NoTemplate == [text |-> <<>>, tvars |-> <<>>, rendered |-> FALSE, out |-> <<>>]

Init ==
    /\ InitCommon
    /\ concurrent = FALSE
    /\ tpl = NoTemplate
    /\ migFiles \in [MigIds -> Contents \cup {"absent"}]
    /\ cbFiles \in [CbIds -> Contents]
    /\ cbFiles[4] = "good"
    /\ seedsDir = FALSE
    /\ seedFiles = NoFiles(SeedIds)

InitSeed ==
    /\ InitCommon
    /\ concurrent = FALSE
    /\ tpl = NoTemplate
    /\ migFiles = NoFiles(MigIds)
    /\ cbFiles = NoFiles(CbIds)
    /\ seedsDir \in BOOLEAN
    /\ seedFiles \in [SeedIds -> IF seedsDir THEN Contents \cup {"absent"} ELSE {"absent"}]

-----------------------------------------------------------------------------
(* main(): a new process runs one command *)

FirstStep(c) ==
    CASE c = "migrate" -> "ensure_db"
      [] c = "seed" -> "seed_start"
      [] c = "info" -> "info_start"

Start(p, c, d) ==
    /\ runner[p].pc \in {"idle", "done"}
    /\ runs < MaxRuns
    /\ concurrent \/ p = 1
    /\ c = "info" => ~d
    /\ runs' = runs + 1
    /\ prevRun' = IF runner[p].pc = "done"
                  THEN [cmd |-> runner[p].cmd, dry |-> runner[p].dry,
                        result |-> runner[p].result, raised |-> runner[p].raised,
                        run |-> runner[p].run,
                        edits |-> runner[p].pre.edits]
                  ELSE prevRun
    /\ Set(p, [IdleRunner EXCEPT !.pc = FirstStep(c), !.cmd = c, !.dry = d,
                                 !.run = runs + 1,
                                 !.pre = Snapshot])
    /\ UNCHANGED <<dbVars, fileVars, edits, concurrent, tpl>>

\* ensure_database_exists
EnsureDatabaseExists(p) ==
    LET r == runner[p] IN
    /\ r.pc = "ensure_db"
    /\ \E up \in BOOLEAN :
        IF ~up
        THEN /\ Set(p, Propagate(r))
             /\ UNCHANGED dbExists
        ELSE /\ dbExists' = TRUE
             /\ Set(p, [r EXCEPT !.pc = "connect", !.dbCreated = ~dbExists])
    /\ UNCHANGED <<tableExists, ledger, rankSeq, execLog, fileVars, envVars>>

\* migrate: self.connect()
Connect(p) ==
    LET r == runner[p] IN
    /\ r.pc = "connect"
    /\ \E up \in BOOLEAN :
        IF up /\ dbExists
        THEN Set(p, [r EXCEPT !.conn = "open",
                              !.pc = IF r.dry THEN "get_pending" ELSE "init_table"])
        ELSE Set(p, Propagate(r))
    /\ UNCHANGED <<dbVars, fileVars, envVars>>

\* migrate: initialize_schema_table
InitializeSchemaTable(p) ==
    LET r == runner[p] IN
    /\ r.pc = "init_table"
    /\ tableExists' = TRUE
    /\ Set(p, [r EXCEPT !.pc = "get_pending"])
    /\ UNCHANGED <<dbExists, ledger, rankSeq, execLog, fileVars, envVars>>

\* migrate: get_pending_migrations and the branch on "if not pending"
GetPending(p) ==
    LET r == runner[p]
        pend == GetPendingMigrations(migFiles, ledger)
        q == [r EXCEPT !.pending = pend, !.warned = DriftWarnings(migFiles, ledger),
                       !.readLedger = TRUE]
    IN
    /\ r.pc = "get_pending"
    /\ IF ~tableExists
       THEN Set(p, Propagate(r))
       ELSE IF pend # <<>>
       THEN Set(p, [q EXCEPT !.pc = "apply"])
       ELSE IF CallbacksWhenNothingPending(r.dbCreated)
       THEN Set(p, [q EXCEPT !.pc = "callbacks", !.queue = CallbackScripts(cbFiles)])
       ELSE Set(p, CloseAndReturn(q, 0))
    /\ UNCHANGED <<dbVars, fileVars, envVars>>

\* what migrate does once apply_migration returned True
AfterApplied(r) ==
    LET q == [r EXCEPT !.applied = @ + 1, !.idx = @ + 1] IN
    IF q.idx <= Len(q.pending)
    THEN [q EXCEPT !.pc = "apply"]
    ELSE IF CallbacksAfterApply(q.applied)
    THEN [q EXCEPT !.pc = "callbacks", !.queue = CallbackScripts(cbFiles)]
    ELSE CloseAndReturn(q, 0)

\* (variant: the command stops at the failure but reports success)
MigrationFailedReturnsZero(r) == CloseAndReturn(r, 0)

\* (variant: the result of apply_migration is ignored and the loop goes on)
MigrationFailedLoopGoesOn(r) == AfterApplied([r EXCEPT !.applied = @ - 1])

\* migrate: "if not success: ... self.close(); return 1"
MigrationFailed(r) == CloseAndReturn(r, 1)

\* apply_migration up to the commit or rollback of the script
ApplyMigration(p) ==
    LET r == runner[p]
        m == r.pending[r.idx]
        content == migFiles[m.filename]
    IN
    /\ r.pc = "apply"
    /\ IF content = "absent"
       THEN /\ Set(p, Propagate(r))
            /\ UNCHANGED execLog
       ELSE IF r.dry
       THEN /\ Set(p, AfterApplied(r))
            /\ UNCHANGED execLog
       ELSE /\ execLog' = Append(execLog, Executed(r, "migration", m.filename, content))
            /\ Set(p, [r EXCEPT !.pc = IF Commits(content) THEN "record_ok" ELSE "record_fail"])
    /\ UNCHANGED <<dbExists, tableExists, ledger, rankSeq, fileVars, envVars>>

\* apply_migration: the INSERT of the try block and its commit
RecordSuccess(p) ==
    LET r == runner[p]
        m == r.pending[r.idx]
    IN
    /\ r.pc = "record_ok"
    /\ IF InsertRejected(m.filename, ledger)
       THEN /\ rankSeq' = rankSeq + 1
            /\ Set(p, [r EXCEPT !.pc = "record_fail"])
            /\ UNCHANGED ledger
       ELSE /\ rankSeq' = rankSeq + 1
            /\ ledger' = Append(ledger, NewRow(r, m, TRUE, rankSeq + 1))
            /\ Set(p, AfterApplied(r))
    /\ UNCHANGED <<dbExists, tableExists, execLog, fileVars, envVars>>

\* apply_migration: the INSERT of the except block, then migrate's "return 1"
RecordFailure(p) ==
    LET r == runner[p]
        m == r.pending[r.idx]
    IN
    /\ r.pc = "record_fail"
    /\ IF InsertRejected(m.filename, ledger)
       THEN /\ rankSeq' = rankSeq + 1
            /\ Set(p, Propagate(r))
            /\ UNCHANGED ledger
       ELSE /\ rankSeq' = rankSeq + 1
            /\ ledger' = Append(ledger, NewRow(r, m, FALSE, rankSeq + 1))
            /\ Set(p, MigrationFailed(r))
    /\ UNCHANGED <<dbExists, tableExists, execLog, fileVars, envVars>>

\* run_after_migrate_scripts: one pass of the loop, or the end of migrate
RunAfterMigrateScript(p) ==
    LET r == runner[p] IN
    /\ r.pc = "callbacks"
    /\ IF r.queue = <<>>
       THEN /\ Set(p, CloseAndReturn(r, 0))
            /\ UNCHANGED execLog
       ELSE LET f == Head(r.queue)
                content == cbFiles[f]
            IN IF r.dry
               THEN /\ Set(p, [r EXCEPT !.queue = Tail(@)])
                    /\ UNCHANGED execLog
               ELSE /\ execLog' = Append(execLog, Executed(r, "callback", f, content))
                    /\ Set(p, IF Commits(content) THEN [r EXCEPT !.queue = Tail(@)]
                                                   ELSE CallbackFailed(r))
    /\ UNCHANGED <<dbExists, tableExists, ledger, rankSeq, fileVars, envVars>>

\* seed: the directory check, self.connect() and the glob
SeedStart(p) ==
    LET r == runner[p]
        files == Sorted(OnDisk(seedFiles))
    IN
    /\ r.pc = "seed_start"
    /\ IF ~seedsDir
       THEN Set(p, ReturnOnly(r, 1))
       ELSE \E up \in BOOLEAN :
            IF ~(up /\ dbExists)
            THEN Set(p, ReturnOnly(r, 1))
            ELSE IF files = <<>>
            THEN Set(p, CloseAndReturn(r, 0))
            ELSE Set(p, [r EXCEPT !.conn = "open", !.pc = "seed_run", !.queue = files])
    /\ UNCHANGED <<dbVars, fileVars, envVars>>

\* seed: one pass of the loop over the seed files, or its end
RunSeed(p) ==
    LET r == runner[p] IN
    /\ r.pc = "seed_run"
    /\ IF r.queue = <<>>
       THEN /\ Set(p, CloseAndReturn(r, 0))
            /\ UNCHANGED execLog
       ELSE LET f == Head(r.queue)
                content == seedFiles[f]
            IN IF r.dry
               THEN /\ Set(p, [r EXCEPT !.queue = Tail(@)])
                    /\ UNCHANGED execLog
               ELSE /\ execLog' = Append(execLog, Executed(r, "seed", f, content))
                    /\ Set(p, IF Commits(content) THEN [r EXCEPT !.queue = Tail(@)]
                                                   ELSE SeedFailed(r))
    /\ UNCHANGED <<dbExists, tableExists, ledger, rankSeq, fileVars, envVars>>

\* info: self.connect(); self.initialize_schema_table()
InfoStart(p) ==
    LET r == runner[p] IN
    /\ r.pc = "info_start"
    /\ \E up \in BOOLEAN :
        IF up /\ dbExists
        THEN /\ tableExists' = TRUE
             /\ Set(p, [r EXCEPT !.conn = "open", !.pc = "info_report"])
        ELSE /\ Set(p, ReturnOnly(r, 0))
             /\ UNCHANGED tableExists
    /\ UNCHANGED <<dbExists, ledger, rankSeq, execLog, fileVars, envVars>>

\* info: get_applied_migrations, get_pending_migrations, the report, close
InfoReport(p) ==
    LET r == runner[p]
        pend == GetPendingMigrations(migFiles, ledger)
    IN
    /\ r.pc = "info_report"
    /\ Set(p, CloseAndReturn([r EXCEPT !.pending = pend, !.readLedger = TRUE,
                                       !.warned = DriftWarnings(migFiles, ledger),
                                       !.counts = <<Cardinality(AppliedScripts(ledger)),
                                                    Len(pend)>>], 0))
    /\ UNCHANGED <<dbVars, fileVars, envVars>>

\* Somebody writes, adds or removes a file of the migrations directory.  The
\* directory is read by get_pending_migrations and by apply_migration only, so
\* a modification made at any other step of an invocation is seen exactly as
\* one made before the invocation started or before its next apply_migration;
\* one made before the first invocation is another initial state.
ReadsFilesNext(r) == r.pc \in {"idle", "done", "apply"}

EditFile(f, c) ==
    /\ edits < MaxEdits
    /\ runs > 0
    /\ \A p \in Procs : ReadsFilesNext(runner[p])
    /\ c # migFiles[f]
    /\ migFiles' = [migFiles EXCEPT ![f] = c]
    /\ edits' = edits + 1
    /\ UNCHANGED <<dbVars, cbFiles, seedFiles, seedsDir, runner, runs, prevRun, concurrent,
                   tpl>>

Step(p) ==
    \/ \E c \in {"migrate", "info"}, d \in BOOLEAN : Start(p, c, d)
    \/ EnsureDatabaseExists(p)
    \/ Connect(p)
    \/ InitializeSchemaTable(p)
    \/ GetPending(p)
    \/ ApplyMigration(p)
    \/ RecordSuccess(p)
    \/ RecordFailure(p)
    \/ RunAfterMigrateScript(p)
    \/ InfoStart(p)
    \/ InfoReport(p)

Next ==
    \/ \E p \in Procs : Step(p)
    \/ \E f \in MigIds, c \in Contents \cup {"absent"} : EditFile(f, c)

Spec == Init /\ [][Next]_vars

NextSeed ==
    \E p \in Procs :
        \/ \E d \in BOOLEAN : Start(p, "seed", d)
        \/ SeedStart(p)
        \/ RunSeed(p)

SpecSeed == InitSeed /\ [][NextSeed]_vars

-----------------------------------------------------------------------------
(* Two processes run migrate against the same existing database, their     *)
(* statements interleaved in any order.  Each statement (a SELECT, a       *)
(* script with its commit, an INSERT with its commit) is one step: the     *)
(* server serialises them.                                                 *)

InitConc ==
    /\ InitCommon
    /\ dbExists = TRUE
    /\ concurrent = TRUE
    /\ tpl = NoTemplate
    /\ migFiles \in [MigIds -> Contents \cup {"absent"}]
    /\ cbFiles \in [CbIds -> Contents]
    /\ cbFiles[4] = "good"
    /\ seedsDir = FALSE
    /\ seedFiles = NoFiles(SeedIds)

NextConc ==
    \E p \in Procs :
        \/ \E d \in BOOLEAN : Start(p, "migrate", d)
        \/ EnsureDatabaseExists(p)
        \/ Connect(p)
        \/ InitializeSchemaTable(p)
        \/ GetPending(p)
        \/ ApplyMigration(p)
        \/ RecordSuccess(p)
        \/ RecordFailure(p)
        \/ RunAfterMigrateScript(p)

SpecConc == InitConc /\ [][NextConc]_vars

-----------------------------------------------------------------------------
(* One call of render_sql_template on any text of at most MaxTplLen         *)
(* characters of TplChars, under each of the mappings of TplMappings.       *)

TplChars == {Dollar, OpenBrace, CloseBrace, 88, 49}

RECURSIVE TextsUpTo(_)
TextsUpTo(n) ==
    IF n = 0 THEN {<<>>}
    ELSE LET shorter == TextsUpTo(n - 1)
         IN shorter \cup {Append(t, c) : t \in shorter, c \in TplChars}

StrVal(s) == [type |-> "str", val |-> s]
IntVal(n) == [type |-> "int", val |-> n]

\* "X", "1" and "${X}" as texts
NameX == <<88>>
NameOne == <<49>>
PlaceholderX == <<Dollar, OpenBrace, 88, CloseBrace>>

TplMappings ==
    { <<>>,                                           \* no variable at all
      [n \in {NameX} |-> StrVal(<<53>>)],              \* X: "5"
      [n \in {NameX} |-> StrVal(PlaceholderX)],        \* X: "${X}"
      [n \in {NameX} |-> IntVal(12)],                  \* X: 12
      [n \in {NameOne} |-> StrVal(<<53>>)],            \* 1: "5"
      [n \in {<<88, 49>>} |-> StrVal(<<>>)] }          \* X1: ""

InitRender ==
    /\ InitCommon
    /\ dbExists = FALSE
    /\ concurrent = FALSE
    /\ migFiles = NoFiles(MigIds)
    /\ cbFiles = NoFiles(CbIds)
    /\ seedsDir = FALSE
    /\ seedFiles = NoFiles(SeedIds)
    /\ tpl \in [text : TextsUpTo(MaxTplLen), tvars : TplMappings,
                rendered : {FALSE}, out : {<<>>}]

Render ==
    /\ ~tpl.rendered
    /\ tpl' = [tpl EXCEPT !.rendered = TRUE,
                          !.out = RenderSqlTemplate(tpl.text, tpl.tvars)]
    /\ UNCHANGED <<dbVars, fileVars, runner, runs, edits, prevRun, concurrent>>

NextRender == Render

SpecRender == InitRender /\ [][NextRender]_vars

-----------------------------------------------------------------------------
(* Vocabulary of the properties *)

\* the executions of scripts of one kind the server saw from invocation n
RunEntries(n, kind) == SelectSeq(execLog, LAMBDA e : e.run = n /\ e.kind = kind)

FilesOf(entries) == [i \in 1..Len(entries) |-> entries[i].file]

StrictlyLex(fs) ==
    \A i, j \in 1..Len(fs) : i < j => LexLess(FileName(fs[i]), FileName(fs[j]))

RowsFor(led, f) == {i \in 1..Len(led) : led[i].script = f}

RowsOfRun(n) == {i \in 1..Len(ledger) : ledger[i].run = n}

\* a migrate invocation that really applies, finished (by return or exception)
AppliedRun(r) == r.pc = "done" /\ r.cmd = "migrate" /\ ~r.dry

\* the files did not change since invocation r started
Untouched(r) == edits = r.pre.edits

-----------------------------------------------------------------------------
(* C1: after a non-dry-run migrate invocation every migration whose SQL    *)
(* was executed in the run has exactly one ledger row with its filename,   *)
(* and the row's success flag tells whether the script committed.          *)
C1_OneRowPerAttempt ==
    \A p \in Procs :
        LET r == runner[p]
            done == RunEntries(r.run, "migration")
        IN AppliedRun(r) =>
            \A i \in 1..Len(done) :
                /\ Cardinality(RowsFor(ledger, done[i].file)) = 1
                /\ \A k \in RowsFor(ledger, done[i].file) :
                       ledger[k].success = done[i].committed

(* C2: if the execution of a pending migration fails, no migration ordered *)
(* after it in the pending list is executed or recorded in that run.       *)
C2_NothingAfterFailure ==
    \A p \in Procs :
        LET r == runner[p]
            done == RunEntries(r.run, "migration")
        IN (r.cmd = "migrate" /\ ~r.dry) =>
            \A i \in 1..Len(done) : ~done[i].committed =>
                \A k \in 1..Len(r.pending) :
                    LexLess(FileName(done[i].file), FileName(r.pending[k].filename)) =>
                        /\ \A j \in 1..Len(done) : done[j].file # r.pending[k].filename
                        /\ \A j \in RowsOfRun(r.run) :
                               ledger[j].script # r.pending[k].filename

\* a run stopped at a failed migration while a later pending file is valid
C2_Witness ==
    \E p \in Procs :
        LET r == runner[p]
            done == RunEntries(r.run, "migration")
        IN /\ AppliedRun(r)
           /\ \E i \in 1..Len(done), k \in 1..Len(r.pending) :
                  /\ ~done[i].committed
                  /\ LexLess(FileName(done[i].file), FileName(r.pending[k].filename))
                  /\ migFiles[r.pending[k].filename] = "good"
                  /\ ~InsertRejected(r.pending[k].filename, ledger)

(* C3 as stated: a second migrate, run right after a first one that ran    *)
(* to its return with the files unmodified since, executes no migration    *)
(* and adds no ledger row.                                                 *)
SecondOfTwo(r) ==
    /\ r.cmd = "migrate" /\ r.pc # "idle"
    /\ prevRun.cmd = "migrate" /\ ~prevRun.dry /\ ~prevRun.raised
    /\ prevRun.run = r.run - 1
    /\ edits = prevRun.edits

SecondRunIsNoop(r) ==
    /\ RunEntries(r.run, "migration") = <<>>
    /\ RowsOfRun(r.run) = {}

C3_SecondRunNoop ==
    \A p \in Procs : SecondOfTwo(runner[p]) => SecondRunIsNoop(runner[p])

(* C3 amended: a second migrate, run right after a first one that          *)
(* returned success with the files unmodified since, executes no migration *)
(* and adds no ledger row.                                                 *)
C3_SecondRunNoopAfterSuccess ==
    \A p \in Procs :
        (SecondOfTwo(runner[p]) /\ prevRun.result = 0) => SecondRunIsNoop(runner[p])

\* the first run applied something, the second one found nothing pending
C3_Witness ==
    \E p \in Procs :
        LET r == runner[p] IN
        /\ SecondOfTwo(r) /\ prevRun.result = 0
        /\ AppliedRun(r) /\ r.result = 0 /\ r.pending = <<>>
        /\ Cardinality(RowsOfRun(prevRun.run)) >= 2

(* C4: what get_pending_migrations returned, against the files and the     *)
(* ledger it read.                                                         *)
\* the runner has its pending list, and files and ledger are as it read them
PendingIsFresh(r) ==
    /\ r.readLedger /\ ~r.raised
    /\ Untouched(r)
    /\ ledger = r.pre.ledger

PendingFiles(r) == [i \in 1..Len(r.pending) |-> r.pending[i].filename]

ListsExactly(fs, S) ==
    /\ Range(fs) = S
    /\ Len(fs) = Cardinality(S)
    /\ StrictlyLex(fs)

HasRowWithChecksum(f, c) ==
    \E i \in 1..Len(ledger) : ledger[i].script = f /\ ledger[i].checksum = c

(* C4 as stated: pending = the files on disk minus those that have a       *)
(* ledger row of the same name and a matching checksum, in strict          *)
(* lexicographic filename order.                                           *)
C4_PendingMinusMatching ==
    \A p \in Procs :
        PendingIsFresh(runner[p]) =>
            ListsExactly(PendingFiles(runner[p]),
                         {f \in OnDisk(migFiles) :
                              ~HasRowWithChecksum(f, Checksum(migFiles[f]))})

(* C4 amended: pending = the files on disk minus those that have a ledger  *)
(* row of the same name, whatever its checksum, in strict lexicographic    *)
(* filename order.                                                         *)
C4_PendingMinusRecorded ==
    \A p \in Procs :
        PendingIsFresh(runner[p]) =>
            ListsExactly(PendingFiles(runner[p]),
                         {f \in OnDisk(migFiles) : RowsFor(ledger, f) = {}})

\* a pending list of two files, computed while a modified file has a row
C4_Witness ==
    \E p \in Procs :
        LET r == runner[p] IN
        /\ PendingIsFresh(r)
        /\ Len(r.pending) >= 2
        /\ \E f \in OnDisk(migFiles) :
               /\ RowsFor(ledger, f) # {}
               /\ ~HasRowWithChecksum(f, Checksum(migFiles[f]))

(* C5: a file that has a ledger row and was modified since is flagged as   *)
(* drifted by a later migrate, is not executed again, and its ledger row   *)
(* (with the checksum stored at apply time) is left as it was.             *)
C5_DriftIsOnlyFlagged ==
    \A p \in Procs :
        LET r == runner[p]
            done == RunEntries(r.run, "migration")
        IN r.cmd = "migrate" =>
            \A f \in MigIds : RowsFor(r.pre.ledger, f) # {} =>
                /\ \A i \in 1..Len(done) : done[i].file # f
                /\ RowsFor(ledger, f) = RowsFor(r.pre.ledger, f)
                /\ \A k \in RowsFor(ledger, f) : ledger[k] = r.pre.ledger[k]
                /\ (PendingIsFresh(r) /\ f \in OnDisk(migFiles)
                      /\ ~HasRowWithChecksum(f, Checksum(migFiles[f])))
                   => f \in r.warned

\* a finished migrate that flagged a file modified after it was applied
C5_Witness ==
    \E p \in Procs :
        LET r == runner[p] IN
        /\ AppliedRun(r) /\ PendingIsFresh(r)
        /\ r.warned # {}
        /\ \E f \in r.warned : RowOf(ledger, f).success

(* C6: a dry-run invocation leaves the database existence flag, the       *)
(* ledger table, the ledger rows and the executed scripts as they were     *)
(* when it started.                                                        *)
C6_DryRunChangesNothing ==
    \A p \in Procs :
        LET r == runner[p] IN
        (r.dry /\ r.pc # "idle") =>
            /\ dbExists = r.pre.db
            /\ tableExists = r.pre.table
            /\ ledger = r.pre.ledger
            /\ Len(execLog) = r.pre.log

(* C7: when an invocation has ended, by return or by exception, its        *)
(* working connection is not left open.                                    *)
C7_ConnectionClosedOnExit ==
    \A p \in Procs : runner[p].pc = "done" => runner[p].conn # "open"

(* C8: in a migrate run that reaches the afterMigrate scripts, a failing   *)
(* script is rolled back, the scripts after it are still executed, all in  *)
(* lexicographic order, and the run returns success.                       *)
C8_CallbackFailureIsolated ==
    \A p \in Procs :
        LET r == runner[p]
            cbs == RunEntries(r.run, "callback")
        IN (AppliedRun(r) /\ cbs # <<>>) =>
            /\ ListsExactly(FilesOf(cbs), OnDisk(cbFiles))
            /\ \A i \in 1..Len(cbs) : cbs[i].committed = (cbFiles[cbs[i].file] = "good")
            /\ r.result = 0
            /\ ~r.raised

\* a failed callback script was followed by the execution of the next one
C8_Witness ==
    \E p \in Procs :
        LET r == runner[p]
            cbs == RunEntries(r.run, "callback")
        IN /\ AppliedRun(r)
           /\ Len(cbs) >= 2
           /\ ~cbs[1].committed

(* C9: which runs execute the afterMigrate scripts.                        *)
AllCallbacksRan(r) == Range(FilesOf(RunEntries(r.run, "callback"))) = OnDisk(cbFiles)
NoCallbackRan(r) == RunEntries(r.run, "callback") = <<>>

CallbackCondition(r) ==
    \/ r.applied > 0
    \/ r.pending = <<>> /\ ~r.dbCreated

(* C9 as stated: a non-dry-run migrate (that got its pending list and      *)
(* ended by a return) executes all afterMigrate scripts if it applied at   *)
(* least one migration, or, with nothing pending, if it created no         *)
(* database; otherwise none.                                               *)
C9_CallbacksIffApplied ==
    \A p \in Procs :
        LET r == runner[p] IN
        (AppliedRun(r) /\ r.readLedger /\ ~r.raised) =>
            IF CallbackCondition(r) THEN AllCallbacksRan(r) ELSE NoCallbackRan(r)

(* C9 amended: a non-dry-run migrate that returns success executes all     *)
(* afterMigrate scripts if it applied at least one migration, or, with     *)
(* nothing pending, if it created no database, and otherwise none; a run   *)
(* in which a migration failed executes none, whatever it applied before.  *)
C9_CallbacksIffAppliedAndSucceeded ==
    \A p \in Procs :
        LET r == runner[p]
            done == RunEntries(r.run, "migration")
        IN AppliedRun(r) =>
            /\ r.result = 0 =>
                   IF CallbackCondition(r) THEN AllCallbacksRan(r) ELSE NoCallbackRan(r)
            /\ (\E i \in 1..Len(done) : ~done[i].committed) => NoCallbackRan(r)

\* a successful run on a database it created, with nothing pending, ran no
\* callback although callback scripts exist
C9_Witness ==
    \E p \in Procs :
        LET r == runner[p] IN
        /\ AppliedRun(r) /\ r.result = 0
        /\ r.dbCreated /\ r.pending = <<>> /\ r.readLedger
        /\ OnDisk(cbFiles) # {}
        /\ NoCallbackRan(r)

(* C10: a non-dry-run seed executes the seed files in lexicographic order; *)
(* the first failing one is rolled back and is the last one executed, the  *)
(* run returns 1, the seeds committed before it stay committed, and the    *)
(* ledger is neither read nor written.                                     *)
C10_SeedStopsAtFirstFailure ==
    \A p \in Procs :
        LET r == runner[p]
            seeds == RunEntries(r.run, "seed")
            failed == {i \in 1..Len(seeds) : ~seeds[i].committed}
        IN (r.pc = "done" /\ r.cmd = "seed" /\ ~r.dry) =>
            /\ StrictlyLex(FilesOf(seeds))
            /\ \A i \in 1..Len(seeds) :
                   /\ seeds[i].committed = (seedFiles[seeds[i].file] = "good")
                   /\ \A f \in OnDisk(seedFiles) :
                          LexLess(FileName(f), FileName(seeds[i].file))
                              => f \in Range(FilesOf(seeds))
            /\ failed # {} => /\ failed = {Len(seeds)}
                              /\ r.result = 1
            /\ (failed = {} /\ r.conn = "closed") =>
                   /\ Range(FilesOf(seeds)) = OnDisk(seedFiles)
                   /\ r.result = 0
            /\ r.conn # "open"
            /\ ~r.readLedger
            /\ ledger = r.pre.ledger /\ tableExists = r.pre.table

\* a seed was committed, the next one failed, and a later one was left out
C10_Witness ==
    \E p \in Procs :
        LET r == runner[p]
            seeds == RunEntries(r.run, "seed")
        IN /\ r.pc = "done" /\ r.cmd = "seed" /\ ~r.dry
           /\ Len(seeds) = 2
           /\ seeds[1].committed /\ ~seeds[2].committed
           /\ \E f \in OnDisk(seedFiles) : f \notin Range(FilesOf(seeds))

(* C11: a non-dry-run migrate returns 0 only if every migration of its     *)
(* pending list was executed, committed and recorded as a success in this  *)
(* run; if the execution of one failed, it ends with 1.                    *)
C11_SuccessMeansAllApplied ==
    \A p \in Procs :
        LET r == runner[p]
            done == RunEntries(r.run, "migration")
        IN AppliedRun(r) =>
            /\ r.result = 0 =>
                   \A k \in 1..Len(r.pending) :
                       /\ \E i \in 1..Len(done) :
                              done[i].file = r.pending[k].filename /\ done[i].committed
                       /\ \E j \in RowsOfRun(r.run) :
                              ledger[j].script = r.pending[k].filename /\ ledger[j].success
            /\ (\E i \in 1..Len(done) : ~done[i].committed) => r.result = 1

\* a run that applied one migration, failed on the next and returned 1
C11_Witness ==
    \E p \in Procs :
        LET r == runner[p]
            done == RunEntries(r.run, "migration")
        IN /\ AppliedRun(r) /\ r.result = 1 /\ ~r.raised
           /\ Len(done) = 2 /\ done[1].committed /\ ~done[2].committed

(* C12: a migration that has a ledger row with success = FALSE is not     *)
(* executed by a later migrate run, and over all runs each migration       *)
(* script is attempted at most once.                                       *)
AttemptsOf(f) ==
    { i \in 1..Len(execLog) : execLog[i].kind = "migration" /\ execLog[i].file = f }

C12_AttemptedAtMostOnce ==
    \A f \in MigIds :
        /\ \A j \in RowsFor(ledger, f) :
               ~ledger[j].success =>
                   \A i \in AttemptsOf(f) : execLog[i].run <= ledger[j].run
        /\ Cardinality(AttemptsOf(f)) <= 1

(* C13: the ledger is append-only: no step updates or deletes an existing  *)
(* row, every row a step adds has a rank strictly greater than every       *)
(* existing rank, and its script differs from every existing row's script. *)
IsPrefix(a, b) == Len(a) <= Len(b) /\ SubSeq(b, 1, Len(a)) = a

C13_LedgerAppendOnly ==
    [][ /\ IsPrefix(ledger, ledger')
        /\ \A j \in (Len(ledger) + 1)..Len(ledger') :
               \A i \in 1..Len(ledger) :
                   /\ ledger'[j].rank > ledger[i].rank
                   /\ ledger'[j].script # ledger[i].script ]_vars

\* two runs have each added a row, the second after a rejected INSERT took a
\* value of the sequence
C13_Witness ==
    /\ Len(ledger) >= 2
    /\ ledger[Len(ledger)].run = 2 /\ ledger[1].run = 1
    /\ ledger[Len(ledger)].rank > Len(ledger)

(* C14: a migrate invocation whose connection fails is aborted as a        *)
(* failure before anything is changed: no database created, no ledger      *)
(* table created, no ledger row written, no script executed.               *)
ConnectionFailed(r) ==
    r.pc = "done" /\ r.cmd = "migrate" /\ r.raised /\ r.conn = "none"

SchemaAndLedgerUntouched(r) ==
    /\ tableExists = r.pre.table
    /\ ledger = r.pre.ledger
    /\ Len(execLog) = r.pre.log

C14_ConnectionFailureChangesNothing ==
    \A p \in Procs :
        LET r == runner[p]
        IN ConnectionFailed(r) =>
            /\ r.result = 1
            /\ dbExists = r.pre.db
            /\ SchemaAndLedgerUntouched(r)

(* C14, amended: such an invocation ends as a failure with no ledger table *)
(* created, no row written and no script executed; the database is the     *)
(* only thing that can have been created, by ensure_database_exists before *)
(* the working connection was attempted.                                   *)
C14_ConnectionFailureLeavesSchemaAlone ==
    \A p \in Procs :
        LET r == runner[p]
        IN ConnectionFailed(r) =>
            /\ r.result = 1
            /\ SchemaAndLedgerUntouched(r)
            /\ dbExists # r.pre.db => r.dbCreated /\ ~r.pre.db /\ dbExists

\* the working connection failed right after the database was created
C14_Witness ==
    \E p \in Procs :
        LET r == runner[p]
        IN ConnectionFailed(r) /\ r.dbCreated /\ ~r.dry /\ ~tableExists

(* C15: a dry-run migrate whose connection succeeded previews each pending *)
(* migration, executes and records nothing, and returns success, whatever  *)
(* the state of the database it connected to.                              *)
C15_DryRunPreviewsAndSucceeds ==
    \A p \in Procs :
        LET r == runner[p]
        IN (r.pc = "done" /\ r.cmd = "migrate" /\ r.dry /\ r.conn # "none" /\ Untouched(r)) =>
            /\ r.result = 0 /\ ~r.raised
            /\ r.applied = Len(r.pending)
            /\ ListsExactly(PendingFiles(r), {f \in OnDisk(migFiles) : f \notin AppliedScripts(ledger)})
            /\ SchemaAndLedgerUntouched(r)

(* C16: render_sql_template replaces every ${NAME}, NAME being a letter or *)
(* underscore followed by letters, digits or underscores, whose NAME is a  *)
(* key of the mapping by the string form of the mapped value, in one pass  *)
(* that does not look into the values it has put in; everything else, a    *)
(* placeholder of an unknown name and a text like ${1} included, is left   *)
(* as it was.                                                              *)
IsIdentifier(s) ==
    /\ Len(s) >= 1
    /\ s[1] \in Letters \cup {Underscore}
    /\ \A k \in 2..Len(s) : s[k] \in Letters \cup Digits \cup {Underscore}

NameAt(text, pl) == SubSeq(text, pl[1] + 2, pl[2] - 1)

\* the placeholders of a text, each as <<first index, last index>>
Placeholders(text) ==
    { pl \in (1..Len(text)) \X (1..Len(text)) :
        /\ pl[1] + 3 <= pl[2]
        /\ text[pl[1]] = Dollar /\ text[pl[1] + 1] = OpenBrace /\ text[pl[2]] = CloseBrace
        /\ IsIdentifier(NameAt(text, pl)) }

KnownPlaceholders(text, tvars) ==
    { pl \in Placeholders(text) : NameAt(text, pl) \in DOMAIN tvars }

\* what the rendering puts in the place of the character at index i
PieceAt(text, tvars, i) ==
    LET known == KnownPlaceholders(text, tvars)
    IN IF \E pl \in known : pl[1] = i
       THEN LET pl == CHOOSE q \in known : q[1] = i
            IN IF tvars[NameAt(text, pl)].type = "int"
               THEN DigitsOf(tvars[NameAt(text, pl)].val)
               ELSE tvars[NameAt(text, pl)].val
       ELSE IF \E pl \in known : pl[1] < i /\ i <= pl[2]
            THEN <<>>
            ELSE <<text[i]>>

RECURSIVE PiecesFrom(_, _, _)
PiecesFrom(text, tvars, i) ==
    IF i > Len(text) THEN <<>>
    ELSE PieceAt(text, tvars, i) \o PiecesFrom(text, tvars, i + 1)

FailedIn(r) ==
    LET done == RunEntries(r.run, "migration")
    IN {done[i].file : i \in {k \in 1..Len(done) : ~done[k].committed}}

C17_FailureLeavesOneFailedRow ==
    \A p \in Procs :
        LET r == runner[p]
        IN AppliedRun(r) =>
            \A f \in FailedIn(r) :
                /\ Cardinality(RowsFor(ledger, f)) = 1
                /\ \A j \in RowsFor(ledger, f) :
                       ledger[j].run = r.run /\ ~ledger[j].success

(* C18: the checksum in the ledger row of an applied migration is the      *)
(* checksum of the content that was executed for that row, also when the   *)
(* file changes between get_pending_migrations and apply_migration.        *)
C18_RowChecksumIsOfExecutedContent ==
    \A j \in 1..Len(ledger) :
        \E i \in 1..Len(execLog) :
            /\ execLog[i].kind = "migration"
            /\ execLog[i].run = ledger[j].run
            /\ execLog[i].file = ledger[j].script
            /\ Checksum(execLog[i].content) = ledger[j].checksum

(* C19: within one migrate invocation the pending migrations are executed  *)
(* strictly in lexicographic order of their file names, each one committed *)
(* and recorded before the next one starts, so the rows the run adds have  *)
(* ranks increasing in the order of the file names; on a ledger the run    *)
(* has just created they are 1, 2, ... with success = TRUE for the applied *)
(* ones.                                                                   *)
C19_AppliedInOrderOneByOne ==
    \A p \in Procs :
        LET r == runner[p]
            done == RunEntries(r.run, "migration")
            rows == RowsOfRun(r.run)
        IN (r.cmd = "migrate" /\ ~r.dry) =>
            /\ StrictlyLex(FilesOf(done))
            /\ \A i \in 1..(Len(done) - 1) :
                   /\ done[i].committed
                   /\ \E j \in rows : ledger[j].script = done[i].file /\ ledger[j].success
            /\ \A j, k \in rows :
                   ledger[j].rank < ledger[k].rank <=>
                       LexLess(FileName(ledger[j].script), FileName(ledger[k].script))
            /\ ~r.pre.table => \A j \in rows : ledger[j].rank = j

\* v10.sql then v2.sql applied by one run on a new ledger: ranks 1 and 2
C19_Witness ==
    \E p \in Procs :
        LET r == runner[p]
        IN /\ AppliedRun(r) /\ r.result = 0 /\ ~r.pre.table
           /\ Len(ledger) = 2
           /\ ledger[1] = [rank |-> 1, script |-> 2, checksum |-> Checksum("good"),
                           success |-> TRUE, run |-> r.run]
           /\ ledger[2].rank = 2 /\ ledger[2].script = 1 /\ ledger[2].success

(* C20: two concurrent migrate invocations are not coordinated: both can   *)
(* find the same migration pending and both execute and commit its script; *)
(* of their two INSERTs of the ledger row for that script the UNIQUE       *)
(* constraint lets one succeed, and the other invocation ends in failure.  *)
CommittedBy(r, f) ==
    \E i \in 1..Len(execLog) :
        /\ execLog[i].kind = "migration" /\ execLog[i].run = r.run
        /\ execLog[i].file = f /\ execLog[i].committed

BothApplied(f) ==
    /\ AppliedRun(runner[1]) /\ AppliedRun(runner[2])
    /\ f \in Range(PendingFiles(runner[1])) /\ f \in Range(PendingFiles(runner[2]))
    /\ CommittedBy(runner[1], f) /\ CommittedBy(runner[2], f)

C20_RaceOnLedgerInsert ==
    \A f \in MigIds :
        /\ Cardinality(RowsFor(ledger, f)) <= 1
        /\ (BothApplied(f) /\ Len(Description(f)) <= DescLimit) =>
               \E j \in RowsFor(ledger, f), p \in Procs :
                   /\ ledger[j].run = runner[p].run /\ ledger[j].success
                   /\ \A q \in Procs \ {p} : runner[q].raised /\ runner[q].result = 1

\* both invocations have executed and committed v10.sql; one row records it
C20_Witness ==
    /\ BothApplied(2)
    /\ Cardinality(RowsFor(ledger, 2)) = 1

(* C21: an info invocation executes no migration, seed or callback SQL and *)
(* adds, changes or removes no ledger row; the one thing it may change is  *)
(* to create the ledger table when it is absent.  The applied count it     *)
(* reports is the number of ledger rows, those with success = FALSE        *)
(* included, and the pending count is the number of migration files on     *)
(* disk whose name has no ledger row.                                      *)
Unrecorded == {f \in OnDisk(migFiles) : RowsFor(ledger, f) = {}}

C21_InfoOnlyReports ==
    \A p \in Procs :
        LET r == runner[p]
        IN r.cmd = "info" =>
            /\ Len(execLog) = r.pre.log
            /\ ledger = r.pre.ledger
            /\ dbExists = r.pre.db
            /\ tableExists # r.pre.table => tableExists /\ ledger = <<>>
            /\ (r.pc = "done" /\ r.readLedger /\ Untouched(r)) =>
                   /\ r.counts[1] = Len(ledger)
                   /\ r.counts[2] = Cardinality(Unrecorded)
                   /\ Range(PendingFiles(r)) = Unrecorded

\* info after a migrate run that applied one migration, failed on the next
\* and left a third one pending: it reports 2 applied, 1 pending
C21_Witness ==
    \E p \in Procs :
        LET r == runner[p]
        IN /\ r.cmd = "info" /\ r.pc = "done" /\ r.readLedger /\ Untouched(r)
           /\ r.counts = <<2, 1>>
           /\ \E j \in 1..Len(ledger) : ~ledger[j].success

====
